---------------------------- MODULE Spec2Model ----------------------------
(***************************************************************************)
(* Model of the UFO PID workshop backend: the discrete plant+PID step      *)
(* (ufo_sim.py), the deterministic gain heuristic and the single-shot      *)
(* tuner (agent_tuner.py) and the two HTTP handlers (app_simple_web.py).   *)
(*                                                                         *)
(* Python floats are modelled as exact decimals of unbounded precision:    *)
(* a number is a sign, a magnitude in base-10000 limbs (least significant  *)
(* first) and a count f of fractional limbs; value = s * m * 10000^(-f).   *)
(* Every literal of the source is a terminating decimal and is kept        *)
(* exactly; division is exact for the divisors the model uses.             *)
(***************************************************************************)
EXTENDS Integers, Sequences, FiniteSets, TLC

---------------------------------------------------------------------------
(* Exact decimal arithmetic (the float operators of the source).           *)

Base == 100 * 100

RECURSIVE StripHigh(_)
StripHigh(m) ==
    IF m = <<>> THEN m
    ELSE IF m[Len(m)] = 0 THEN StripHigh(SubSeq(m, 1, Len(m) - 1))
    ELSE m

RECURSIVE StripLow(_, _, _)
StripLow(s, f, m) ==
    IF f > 0 /\ m[1] = 0 THEN StripLow(s, f - 1, Tail(m))
    ELSE [s |-> s, f |-> f, m |-> m]

Zero == [s |-> 0, f |-> 0, m |-> <<>>]

\* canonical form: no high zero limb, no low zero limb while f > 0
Norm(s, f, m) ==
    LET h == StripHigh(m)
    IN  IF h = <<>> \/ s = 0 THEN Zero ELSE StripLow(s, f, h)

Limb(m, i) == IF i <= Len(m) THEN m[i] ELSE 0

RECURSIVE MagAddFrom(_, _, _, _)
MagAddFrom(a, b, i, c) ==
    IF i > Len(a) /\ i > Len(b)
    THEN (IF c = 0 THEN <<>> ELSE <<c>>)
    ELSE LET t == Limb(a, i) + Limb(b, i) + c
         IN  <<t % Base>> \o MagAddFrom(a, b, i + 1, t \div Base)

MagAdd(a, b) == MagAddFrom(a, b, 1, 0)

\* a - b for magnitudes with a >= b
RECURSIVE MagSubFrom(_, _, _, _)
MagSubFrom(a, b, i, c) ==
    IF i > Len(a) THEN <<>>
    ELSE LET t == Limb(a, i) - Limb(b, i) - c
         IN  IF t < 0 THEN <<t + Base>> \o MagSubFrom(a, b, i + 1, 1)
                      ELSE <<t>> \o MagSubFrom(a, b, i + 1, 0)

MagSub(a, b) == StripHigh(MagSubFrom(a, b, 1, 0))

\* -1, 0, 1 for stripped magnitudes, comparing from limb i down
RECURSIVE MagCmpFrom(_, _, _)
MagCmpFrom(a, b, i) ==
    IF i = 0 THEN 0
    ELSE IF a[i] < b[i] THEN -1
    ELSE IF a[i] > b[i] THEN 1
    ELSE MagCmpFrom(a, b, i - 1)

MagCmp(a, b) ==
    IF Len(a) < Len(b) THEN -1
    ELSE IF Len(a) > Len(b) THEN 1
    ELSE MagCmpFrom(a, b, Len(a))

RECURSIVE MagMulLimb(_, _, _, _)
MagMulLimb(b, d, i, c) ==
    IF i > Len(b) THEN (IF c = 0 THEN <<>> ELSE <<c>>)
    ELSE LET t == b[i] * d + c
         IN  <<t % Base>> \o MagMulLimb(b, d, i + 1, t \div Base)

RECURSIVE MagMulFrom(_, _, _)
MagMulFrom(a, b, i) ==
    IF i > Len(a) THEN <<>>
    ELSE MagAdd(MagMulLimb(b, a[i], 1, 0), <<0>> \o MagMulFrom(a, b, i + 1))

MagMul(a, b) == StripHigh(MagMulFrom(a, b, 1))

Zeros(n) == [i \in 1..n |-> 0]

RECURSIVE NatLimbs(_)
NatLimbs(n) == IF n = 0 THEN <<>> ELSE <<n % Base>> \o NatLimbs(n \div Base)

RECURSIVE Pow10(_)
Pow10(k) == IF k = 0 THEN 1 ELSE 10 * Pow10(k - 1)

\* the decimal literal n * 10^(-k)
Dec(n, k) ==
    LET f == (k + 3) \div 4
        a == (IF n < 0 THEN -n ELSE n) * Pow10(4 * f - k)
    IN  Norm(IF n < 0 THEN -1 ELSE IF n = 0 THEN 0 ELSE 1, f, NatLimbs(a))

Neg(x) == [x EXCEPT !.s = -x.s]

Abs(x) == [x EXCEPT !.s = IF x.s = 0 THEN 0 ELSE 1]

\* magnitude of x with fractional limbs padded up to f
Pad(x, f) == Zeros(f - x.f) \o x.m

Add(x, y) ==
    IF x.s = 0 THEN y
    ELSE IF y.s = 0 THEN x
    ELSE LET f == IF x.f > y.f THEN x.f ELSE y.f
             a == Pad(x, f)
             b == Pad(y, f)
             c == MagCmp(StripHigh(a), StripHigh(b))
         IN  IF x.s = y.s THEN Norm(x.s, f, MagAdd(a, b))
             ELSE IF c = 0 THEN Zero
             ELSE IF c > 0 THEN Norm(x.s, f, MagSub(a, b))
             ELSE Norm(y.s, f, MagSub(b, a))

Sub(x, y) == Add(x, Neg(y))

Mul(x, y) ==
    IF x.s = 0 \/ y.s = 0 THEN Zero
    ELSE Norm(x.s * y.s, x.f + y.f, MagMul(x.m, y.m))

Le(x, y) == Sub(x, y).s <= 0

Lt(x, y) == Sub(x, y).s < 0

\* Python's max(x, y) and min(x, y): the first argument wins a tie
Max(x, y) == IF Lt(x, y) THEN y ELSE x

Min(x, y) == IF Lt(y, x) THEN y ELSE x

One == Dec(1, 0)

\* the divisors the model divides by, and the decimals that are reciprocals
Divisors ==
    { Dec(1, 6), Dec(1, 4), Dec(1, 3), Dec(5, 3), Dec(1, 2), Dec(2, 2),
      Dec(5, 2), Dec(1, 1), Dec(5, 1), Dec(1, 0) }

Reciprocals ==
    { Dec(1000000, 0), Dec(10000, 0), Dec(1000, 0), Dec(200, 0), Dec(100, 0),
      Dec(50, 0), Dec(20, 0), Dec(10, 0), Dec(2, 0), Dec(1, 0) }

Recip == [d \in Divisors |-> CHOOSE q \in Reciprocals : Mul(q, d) = One]

\* x / d, exact
Div(x, d) == Mul(x, Recip[d])

\* int(x) for x >= 0: the integer part
PyInt(x) ==
    LET w == SubSeq(x.m, x.f + 1, Len(x.m))
        v[i \in 0..Len(w)] == IF i = 0 THEN 0 ELSE v[i - 1] * Base + w[Len(w) + 1 - i]
    IN  IF x.s <= 0 THEN 0 ELSE v[Len(w)]

---------------------------------------------------------------------------
(* ufo_sim.py                                                              *)

\* clamp(x, lo, hi) = max(lo, min(hi, x))
clamp_lo_only(x, lo, hi) == Max(lo, x)

clamp(x, lo, hi) == Max(lo, Min(hi, x))

\* UFOState defaults and the plant coefficients
A11 == Dec(0, 0)
A12 == Dec(1, 0)
A21 == Dec(1, 2)
A22 == Dec(0, 0)
B1 == Dec(0, 0)
B2 == Dec(1, 0)

UFOState(theta, omega, integ, e_prev, paused) ==
    [theta |-> theta, omega |-> omega, integ |-> integ,
     e_prev |-> e_prev, paused |-> paused]

PidEps == Dec(1, 6)

\* a conditional-integration (anti-windup) variant: the integral is frozen
\* while the error is large
pid_control_windup_guard(e, e_prev, integ, dt, kp, ki, kd) ==
    LET integ2 == IF Lt(One, Abs(e)) THEN integ ELSE Add(integ, Mul(e, dt))
        deriv == Div(Sub(e, e_prev), Max(dt, PidEps))
    IN  [u |-> Add(Add(Mul(kp, e), Mul(ki, integ2)), Mul(kd, deriv)),
         integ |-> integ2]

pid_control(e, e_prev, integ, dt, kp, ki, kd) ==
    LET integ2 == Add(integ, Mul(e, dt))
        deriv == Div(Sub(e, e_prev), Max(dt, PidEps))
    IN  [u |-> Add(Add(Mul(kp, e), Mul(ki, integ2)), Mul(kd, deriv)),
         integ |-> integ2]

DtFloor == Dec(1, 4)

\* the step size is used as given
floor_dt_raw(dt) == dt

\* dt = max(float(dt), 1e-4)
floor_dt(dt) == Max(dt, DtFloor)

\* the plant advances whether paused or not
plant_ignores_pause(dt, theta, omega, u, paused) ==
    LET theta_dot == Add(Add(Mul(A11, theta), Mul(A12, omega)), Mul(B1, u))
        omega_dot == Add(Add(Mul(A21, theta), Mul(A22, omega)), Mul(B2, u))
    IN  [theta |-> Add(theta, Mul(dt, theta_dot)),
         omega |-> Add(omega, Mul(dt, omega_dot))]

\* semi-implicit Euler: theta advances with the updated omega
plant_semi_implicit(dt, theta, omega, u, paused) ==
    LET omega_dot == Add(Add(Mul(A21, theta), Mul(A22, omega)), Mul(B2, u))
        omega2 == Add(omega, Mul(dt, omega_dot))
        theta_dot == Add(Add(Mul(A11, theta), Mul(A12, omega2)), Mul(B1, u))
    IN  IF ~paused
        THEN [theta |-> Add(theta, Mul(dt, theta_dot)), omega |-> omega2]
        ELSE [theta |-> theta, omega |-> omega]

\* the "# Plant" block of step_ufo: one forward-Euler step unless paused
plant(dt, theta, omega, u, paused) ==
    LET theta_dot == Add(Add(Mul(A11, theta), Mul(A12, omega)), Mul(B1, u))
        omega_dot == Add(Add(Mul(A21, theta), Mul(A22, omega)), Mul(B2, u))
    IN  IF ~paused
        THEN [theta |-> Add(theta, Mul(dt, theta_dot)),
              omega |-> Add(omega, Mul(dt, omega_dot))]
        ELSE [theta |-> theta, omega |-> omega]

ULimitDefault == Dec(3, 0)

ThetaRefDefault == Dec(0, 0)

\* step_ufo: returns (next_state, e, u)
step_ufo(dt, st, kp, ki, kd, theta_ref, u_limit) ==
    LET dt2 == floor_dt(dt)
        e == Sub(theta_ref, st.theta)
        pid == pid_control(e, st.e_prev, st.integ, dt2, kp, ki, kd)
        u == clamp(pid.u, Neg(u_limit), u_limit)
        p == plant(dt2, st.theta, st.omega, u, st.paused)
    IN  [next_state |-> UFOState(p.theta, p.omega, pid.integ, e, st.paused),
         e |-> e, u |-> u]

\* one pass of the loop body of rollout_metrics: the step, then the sums
rollout_body(s, acc, dt, kp, ki, kd, u_limit) ==
    CHOOSE v \in
        { [s |-> r.next_state,
           acc |-> [iae |-> Add(acc.iae, Mul(Abs(r.e), dt)),
                    max_abs_error |-> Max(acc.max_abs_error, Abs(r.e)),
                    max_abs_u |-> Max(acc.max_abs_u, Abs(r.u)),
                    fuel |-> Add(acc.fuel, Mul(Abs(r.u), dt))]] :
          r \in {step_ufo(dt, s, kp, ki, kd, ThetaRefDefault, u_limit)} } : TRUE

\* the loop of rollout_metrics, passes n+1 .. steps, from state s
RECURSIVE rollout_loop(_, _, _, _, _, _, _, _, _)
rollout_loop(n, steps, s, acc, dt, kp, ki, kd, u_limit) ==
    IF n = steps THEN acc
    ELSE CHOOSE v \in
             { rollout_loop(n + 1, steps, x.s, x.acc, dt, kp, ki, kd, u_limit) :
               x \in {rollout_body(s, acc, dt, kp, ki, kd, u_limit)} } : TRUE

MinSteps == Dec(2, 0)

\* steps = int(max(2, seconds / max(dt, 1e-4)))
rollout_steps(dt, seconds) ==
    LET q == Div(seconds, Max(dt, DtFloor))
    IN  IF Lt(MinSteps, q) THEN PyInt(q) ELSE PyInt(MinSteps)

rollout_metrics(dt, kp, ki, kd, seconds, theta0, omega0, u_limit) ==
    LET steps == rollout_steps(dt, seconds)
        s == UFOState(theta0, omega0, Zero, Zero, FALSE)
        acc == rollout_loop(0, steps, s,
                   [iae |-> Zero, max_abs_error |-> Zero,
                    max_abs_u |-> Zero, fuel |-> Zero],
                   dt, kp, ki, kd, u_limit)
    IN  [iae |-> acc.iae, max_abs_error |-> acc.max_abs_error,
         max_abs_u |-> acc.max_abs_u, fuel |-> acc.fuel,
         seconds |-> seconds, dt |-> dt]

---------------------------------------------------------------------------
(* agent_tuner.py                                                          *)

HeuristicNote ==
    "Deterministic heuristic: kp scales with |theta0|, kd adjusted for dt; ki kept small."

\* compute_pid_gains before the large-disturbance override
pid_gains_smooth(theta0, dt) ==
    LET dt2 == Max(dt, Dec(1, 3))
        a == Abs(theta0)
        kp == Add(Dec(22, 1), Mul(Dec(35, 2), Min(a, Dec(6, 0))))
        ki == Add(Dec(3, 2), Mul(Dec(1, 2), Min(a, Dec(6, 0))))
        kd == IF Lt(dt2, Dec(1, 2)) THEN Mul(Dec(9, 1), Dec(7, 1))
              ELSE IF Lt(Dec(8, 2), dt2) THEN Mul(Dec(9, 1), Dec(115, 2))
              ELSE Dec(9, 1)
    IN  [kp |-> clamp(kp, Dec(0, 0), Dec(10, 0)),
         ki |-> clamp(ki, Dec(0, 0), Dec(2, 0)),
         kd |-> clamp(kd, Dec(0, 0), Dec(5, 0))]

\* the override fires from |theta0| = 2.5 on
compute_pid_gains_ge(theta0, dt) ==
    LET g == pid_gains_smooth(theta0, dt)
    IN  IF Le(Dec(25, 1), Abs(theta0))
        THEN [kp |-> Dec(39, 1), ki |-> Dec(117, 2), kd |-> Dec(29, 1),
              note |-> HeuristicNote]
        ELSE [kp |-> g.kp, ki |-> g.ki, kd |-> g.kd, note |-> HeuristicNote]

compute_pid_gains(theta0, dt) ==
    LET g == pid_gains_smooth(theta0, dt)
    IN  IF Lt(Dec(25, 1), Abs(theta0))
        THEN [kp |-> Dec(39, 1), ki |-> Dec(117, 2), kd |-> Dec(29, 1),
              note |-> HeuristicNote]
        ELSE [kp |-> g.kp, ki |-> g.ki, kd |-> g.kd, note |-> HeuristicNote]

NoOutput == "None"

\* extract_tool_trace over result.new_items (a sequence of items, each a
\* tool call or a tool output)
RECURSIVE extract_tool_trace_from(_, _, _)
extract_tool_trace_from(items, i, acc) ==
    IF i > Len(items) THEN acc
    ELSE LET it == items[i]
             a1 == IF it.kind = "ToolCallItem"
                   THEN [acc EXCEPT !.tool_called = TRUE,
                                    !.tool_calls = Append(@, it.raw_item)]
                   ELSE acc
             a2 == IF it.kind = "ToolCallOutputItem"
                   THEN [a1 EXCEPT !.tool_output_last = it.output]
                   ELSE a1
         IN  extract_tool_trace_from(items, i + 1, a2)

extract_tool_trace(result) ==
    extract_tool_trace_from(result.new_items, 1,
        [tool_called |-> FALSE, tool_calls |-> <<>>, tool_output_last |-> NoOutput])

\* Runner.run_sync: one run of the agent against the LLM service; llm is the
\* number of runs the service has seen
run_sync(llm) == llm + 1

\* a retry wrapper: the agent is run a second time
tune_gains_llm_retry(llm) == run_sync(run_sync(llm))

\* the runs tune_gains makes: one Runner.run_sync
tune_gains_llm(llm) == run_sync(llm)

\* the meta dictionary of tune_gains
tune_meta(style, result) ==
    LET t == extract_tool_trace(result)
    IN  [mode |-> "single_shot", style |-> style, tool_called |-> t.tool_called,
         tool_calls |-> t.tool_calls, tool_output_last |-> t.tool_output_last]

\* the structured output is returned as the model gave it
tune_gains_unclamped(dt, theta0, style, result) ==
    LET out == result.final_output
    IN  [kp |-> out.kp, ki |-> out.ki, kd |-> out.kd,
         note |-> IF out.note = NoOutput THEN "" ELSE out.note,
         meta |-> tune_meta(style, result)]

\* tune_gains, given the result Runner.run_sync returned
tune_gains(dt, theta0, style, result) ==
    LET out == result.final_output
    IN  [kp |-> clamp(out.kp, Dec(0, 0), Dec(10, 0)),
         ki |-> clamp(out.ki, Dec(0, 0), Dec(2, 0)),
         kd |-> clamp(out.kd, Dec(0, 0), Dec(5, 0)),
         note |-> IF out.note = NoOutput THEN "" ELSE out.note,
         meta |-> tune_meta(style, result)]

---------------------------------------------------------------------------
(* app_simple_web.py                                                       *)

\* the arguments with which control calls step_ufo (u_limit is defaulted)
control_args(req) ==
    [dt |-> req.dt, state |-> req.state, kp |-> req.kp, ki |-> req.ki,
     kd |-> req.kd, theta_ref |-> req.theta_ref, u_limit |-> ULimitDefault]

\* POST /control
control(req) ==
    LET a == control_args(req)
        r == step_ufo(a.dt, a.state, a.kp, a.ki, a.kd, a.theta_ref, a.u_limit)
    IN  [state |-> r.next_state, error |-> r.e, u |-> r.u]

\* the LLM runs a /control request makes: control calls step_ufo only
control_llm(llm) == llm

---------------------------------------------------------------------------
(* The callers: the state machine.                                         *)

VARIABLES
    state,      \* the UFOState the caller holds and sends with each step
    start,      \* the UFOState the caller began with
    call,       \* the last call handled: its arguments and what it returned
    llm_runs,   \* runs of the agent against the LLM service so far
    served,     \* requests served per endpoint
    nsteps      \* direct calls of the simulation functions so far

vars == <<state, start, call, llm_runs, served, nsteps>>

MaxSteps == 2
MaxRequests == 2
MaxRolloutSteps == 4

Gains(kp, ki, kd) == [kp |-> kp, ki |-> ki, kd |-> kd]

\* inputs of step_ufo
StepDts == {Dec(-1, 0), Dec(0, 0), Dec(1, 4), Dec(5, 2)}
StepGains == {Gains(Dec(22, 1), Dec(3, 2), Dec(9, 1)), Gains(Dec(1, 0), Dec(5, 1), Dec(0, 0))}
ThetaRefs == {Dec(0, 0), Dec(1, 0)}
ULimits == {Dec(3, 0), Dec(5, 1), Dec(-1, 0)}
Thetas == {Dec(3, 0), Dec(5, 1)}

Init ==
    /\ \E th \in Thetas, p \in BOOLEAN :
           state = UFOState(th, Dec(0, 0), Dec(0, 0), Dec(0, 0), p)
    /\ start = state
    /\ call = [op |-> "none"]
    /\ llm_runs = 0
    /\ served = [control |-> 0, tune |-> 0]
    /\ nsteps = 0

\* a direct call of step_ufo; the caller keeps the state it returns
StepUfo ==
    /\ nsteps < MaxSteps
    /\ \E dt \in StepDts, g \in StepGains, ref \in ThetaRefs, ul \in ULimits :
           \E r \in {step_ufo(dt, state, g.kp, g.ki, g.kd, ref, ul)} :
               /\ state' = r.next_state
               /\ call' = [op |-> "step_ufo", dt |-> dt, state |-> state,
                           kp |-> g.kp, ki |-> g.ki, kd |-> g.kd,
                           theta_ref |-> ref, u_limit |-> ul,
                           next_state |-> r.next_state, e |-> r.e, u |-> r.u]
    /\ nsteps' = nsteps + 1
    /\ UNCHANGED <<start, llm_runs, served>>

\* inputs of the /control endpoint: the caller sends any gains
ControlDts == {Dec(0, 0), Dec(5, 2)}
ControlGains == {Gains(Dec(22, 1), Dec(3, 2), Dec(9, 1)), Gains(Dec(50, 0), Dec(3, 0), Dec(6, 0))}

\* POST /control: the caller sends its state and keeps the one returned
Control ==
    /\ served.control + served.tune < MaxRequests
    /\ \E dt \in ControlDts, g \in ControlGains :
           LET req == [dt |-> dt, theta_ref |-> ThetaRefDefault, kp |-> g.kp,
                       ki |-> g.ki, kd |-> g.kd, state |-> state]
           IN  \E r \in {control(req)} :
                   /\ state' = r.state
                   /\ call' = [op |-> "control", req |-> req,
                               step_args |-> control_args(req), response |-> r]
    /\ llm_runs' = control_llm(llm_runs)
    /\ served' = [served EXCEPT !.control = @ + 1]
    /\ UNCHANGED <<start, nsteps>>

\* inputs of tune_gains and what the LLM may answer
TuneDts == {Dec(2, 2)}
TuneThetas == {Dec(24, 1), Dec(26, 1)}
Styles == {"no_tools", "agent_tool"}
LLMOutputs ==
    { [kp |-> Dec(25, 1), ki |-> Dec(1, 1), kd |-> Dec(12, 1), note |-> "ok"],
      [kp |-> Dec(50, 0), ki |-> Dec(3, 0), kd |-> Dec(7, 0), note |-> NoOutput],
      [kp |-> Dec(-1, 0), ki |-> Dec(-1, 1), kd |-> Dec(-2, 0), note |-> ""] }

\* result.new_items: nothing, or one call of the tool and its output
NewItems(style, dt, theta0) ==
    IF style = "no_tools" THEN {<<>>}
    ELSE { <<>>,
           << [kind |-> "ToolCallItem",
               raw_item |-> [name |-> "compute_pid_gains", theta0 |-> theta0, dt |-> dt]],
              [kind |-> "ToolCallOutputItem", output |-> compute_pid_gains(theta0, dt)] >> }

RunResults(style, dt, theta0) ==
    { [final_output |-> o, new_items |-> it] :
          o \in LLMOutputs, it \in NewItems(style, dt, theta0) }

\* one call of tune_gains: one agent run, then the clamped answer
TuneGainsCall ==
    /\ \E dt \in TuneDts, theta0 \in TuneThetas, style \in Styles :
           \E result \in RunResults(style, dt, theta0) :
               call' = [op |-> "tune_gains", dt |-> dt, theta0 |-> theta0,
                        style |-> style, result |-> result,
                        response |-> tune_gains(dt, theta0, style, result)]
    /\ llm_runs' = tune_gains_llm(llm_runs)

\* POST /tune
Tune ==
    /\ served.control + served.tune < MaxRequests
    /\ TuneGainsCall
    /\ served' = [served EXCEPT !.tune = @ + 1]
    /\ UNCHANGED <<state, start, nsteps>>

\* tune_gains called directly
TuneGains ==
    /\ nsteps < MaxSteps
    /\ TuneGainsCall
    /\ nsteps' = nsteps + 1
    /\ UNCHANGED <<state, start, served>>

\* inputs of compute_pid_gains
HeuristicThetas ==
    { Dec(-7, 0), Dec(-3, 0), Dec(-26, 1), Dec(-25, 1), Dec(0, 0), Dec(1, 0),
      Dec(24, 1), Dec(25, 1), Dec(26, 1), Dec(3, 0), Dec(6, 0), Dec(7, 0) }
HeuristicDts ==
    { Dec(-1, 0), Dec(0, 0), Dec(5, 3), Dec(1, 2), Dec(2, 2), Dec(8, 2), Dec(1, 1) }

\* compute_pid_gains called as the tool
ComputePidGains ==
    /\ \E theta0 \in HeuristicThetas, dt \in HeuristicDts :
           call' = [op |-> "compute_pid_gains", theta0 |-> theta0, dt |-> dt,
                    response |-> compute_pid_gains(theta0, dt)]
    /\ UNCHANGED <<state, start, llm_runs, served, nsteps>>

\* inputs of rollout_metrics
RolloutDts == {Dec(-1, 0), Dec(1, 4), Dec(5, 2)}
RolloutSeconds == {Dec(0, 0), Dec(35, 5), Dec(4, 4), Dec(175, 3), Dec(2, 1)}
RolloutOmegas == {Dec(0, 0), Dec(1, 0)}
RolloutULimits == {Dec(3, 0), Dec(5, 1)}

\* rollout_metrics called once, as the evaluation tool
Rollout ==
    /\ call.op = "none"
    /\ \E dt \in RolloutDts, g \in StepGains, seconds \in RolloutSeconds,
          theta0 \in Thetas, omega0 \in RolloutOmegas, ul \in RolloutULimits :
           /\ rollout_steps(dt, seconds) <= MaxRolloutSteps
           /\ \E r \in {rollout_metrics(dt, g.kp, g.ki, g.kd, seconds,
                                        theta0, omega0, ul)} :
                  call' = [op |-> "rollout_metrics", dt |-> dt, kp |-> g.kp,
                           ki |-> g.ki, kd |-> g.kd, seconds |-> seconds,
                           theta0 |-> theta0, omega0 |-> omega0, u_limit |-> ul,
                           steps |-> rollout_steps(dt, seconds), response |-> r]
    /\ UNCHANGED <<state, start, llm_runs, served, nsteps>>

\* the simulation step called in sequence
NextStep == StepUfo

SpecStep == Init /\ [][NextStep]_vars

\* the tuner and its tool
NextGains == ComputePidGains \/ TuneGains

SpecGains == Init /\ [][NextGains]_vars

\* the rollout evaluator
NextRollout == Rollout

SpecRollout == Init /\ [][NextRollout]_vars

\* the web backend: /control and /tune requests in any order
Next == Control \/ Tune

Spec == Init /\ [][Next]_vars
---------------------------------------------------------------------------
(* Properties.                                                             *)

IsStep == call.op = "step_ufo"

\* kp in [0,10], ki in [0,2], kd in [0,5]
InRange(g) ==
    /\ Le(Dec(0, 0), g.kp) /\ Le(g.kp, Dec(10, 0))
    /\ Le(Dec(0, 0), g.ki) /\ Le(g.ki, Dec(2, 0))
    /\ Le(Dec(0, 0), g.kd) /\ Le(g.kd, Dec(5, 0))

\* C1: from a paused state, after any number of consecutive step_ufo calls
\* with any dt, gains, theta_ref and u_limit, theta and omega are those of
\* the initial state and the state is still paused.
PauseInvariant ==
    start.paused =>
        /\ state.theta = start.theta
        /\ state.omega = start.omega
        /\ state.paused

\* two steps were taken from a paused state and the controller memory moved
PauseWitness ==
    /\ start.paused
    /\ nsteps = 2
    /\ IsStep
    /\ call.u # Zero
    /\ state.integ # start.integ

\* C2 (as stated): for every u_limit, the returned u has |u| <= u_limit.
SaturationAnyLimit == IsStep => Le(Abs(call.u), call.u_limit)

\* C2 (amended): for every u_limit >= 0, the returned u has |u| <= u_limit.
SaturationBound ==
    (IsStep /\ Le(Zero, call.u_limit)) => Le(Abs(call.u), call.u_limit)

\* the raw PID output exceeded the limit and was cut back to it
SaturationWitness ==
    /\ IsStep
    /\ call.u_limit = Dec(5, 1)
    /\ call.u = Dec(-5, 1)
    /\ Lt(pid_control(call.e, call.state.e_prev, call.state.integ,
                      floor_dt(call.dt), call.kp, call.ki, call.kd).u,
          Dec(-5, 1))

\* C3: over every interleaving of /control and /tune requests the LLM has
\* been run exactly once per /tune request served and never for /control.
OneRunPerTune == llm_runs = served.tune

\* both endpoints were served; only the /tune request ran the agent
SeparationWitness ==
    /\ served.control = 1
    /\ served.tune = 1
    /\ llm_runs = 1

\* C4 (as stated): the gains step_ufo is executed with are in range,
\* whatever their source.
ControlGainsInRange == call.op = "control" => InRange(call.step_args)

\* C5: compute_pid_gains returns gains in range for every theta0 and dt,
\* and tune_gains returns gains in range for every structured output.
GainOutputsInRange ==
    (call.op \in {"compute_pid_gains", "tune_gains"}) => InRange(call.response)

\* the LLM answered out of range and tune_gains cut the answer back
GainClampWitness ==
    /\ call.op = "tune_gains"
    /\ ~InRange(call.result.final_output)
    /\ call.response.kp = Dec(10, 0)
    /\ call.response.ki = Dec(2, 0)
    /\ call.response.kd = Dec(5, 0)

\* C6: compute_pid_gains returns exactly (3.9, 1.17, 2.9) when |theta0| > 2.5
\* and otherwise kp = 2.2 + 0.35|theta0|, ki = 0.03 + 0.01|theta0| and
\* kd = 0.9, times 0.7 if max(dt,1e-3) < 0.01, times 1.15 if it is > 0.08.
HeuristicDiscontinuity ==
    call.op = "compute_pid_gains" =>
        LET a == Abs(call.theta0)
            d == Max(call.dt, Dec(1, 3))
            r == call.response
        IN  IF Lt(Dec(25, 1), a)
            THEN r.kp = Dec(39, 1) /\ r.ki = Dec(117, 2) /\ r.kd = Dec(29, 1)
            ELSE /\ r.kp = Add(Dec(22, 1), Mul(Dec(35, 2), a))
                 /\ r.ki = Add(Dec(3, 2), Mul(Dec(1, 2), a))
                 /\ r.kd = IF Lt(d, Dec(1, 2)) THEN Dec(63, 2)
                           ELSE IF Lt(Dec(8, 2), d) THEN Dec(1035, 3)
                           ELSE Dec(9, 1)

\* at the boundary |theta0| = 2.5 the smooth formula still applies
HeuristicBoundaryWitness ==
    /\ call.op = "compute_pid_gains"
    /\ call.theta0 = Dec(-25, 1)
    /\ call.dt = Dec(2, 2)
    /\ call.response.kp = Dec(3075, 3)
    /\ call.response.ki = Dec(55, 3)
    /\ call.response.kd = Dec(9, 1)

\* C7 (as stated): with everything else fixed, a longer horizon never gives
\* a smaller iae.
RolloutMonotone ==
    call.op = "rollout_metrics" =>
        \A s2 \in RolloutSeconds :
            (Le(call.seconds, s2) /\ rollout_steps(call.dt, s2) <= MaxRolloutSteps) =>
                Le(call.response.iae,
                   rollout_metrics(call.dt, call.kp, call.ki, call.kd, s2,
                                   call.theta0, call.omega0, call.u_limit).iae)

\* C8: step_ufo with dt <= 1e-4 returns what it returns with dt = 1e-4, and
\* the integral, the derivative and the Euler update all use 1e-4.
DtFloorEquivalence ==
    (IsStep /\ Le(call.dt, DtFloor)) =>
        LET st == call.state
            ns == call.next_state
            raw == Add(Add(Mul(call.kp, call.e), Mul(call.ki, ns.integ)),
                       Mul(call.kd, Mul(Sub(call.e, st.e_prev), Dec(10000, 0))))
        IN  /\ [next_state |-> ns, e |-> call.e, u |-> call.u]
                 = step_ufo(DtFloor, st, call.kp, call.ki, call.kd,
                            call.theta_ref, call.u_limit)
            /\ ns.integ = Add(st.integ, Mul(call.e, DtFloor))
            /\ call.u = clamp(raw, Neg(call.u_limit), call.u_limit)
            /\ ~st.paused => ns.theta = Add(st.theta, Mul(DtFloor, st.omega))

\* a step with dt = 0 moved a turning, unpaused plant
DtFloorWitness ==
    /\ IsStep
    /\ call.dt = Zero
    /\ ~call.state.paused
    /\ call.state.omega # Zero
    /\ call.next_state.theta # call.state.theta

\* C9: for an unpaused state theta_new = theta + dt*omega and
\* omega_new = omega + dt*(0.01*theta + u), with u the saturated control of
\* the step, the pre-step theta and omega, and dt the step size in effect;
\* the worked example yields e = -3, u = -3, theta = 3, omega = -0.1485,
\* integ = -0.15, e_prev = -3.
IsWorkedExample ==
    /\ IsStep
    /\ call.dt = Dec(5, 2)
    /\ call.state = UFOState(Dec(3, 0), Zero, Zero, Zero, FALSE)
    /\ call.kp = Dec(22, 1) /\ call.ki = Dec(3, 2) /\ call.kd = Dec(9, 1)
    /\ call.theta_ref = Zero
    /\ call.u_limit = Dec(3, 0)

EulerUpdate ==
    /\ (IsStep /\ ~call.state.paused) =>
           LET st == call.state
               d == Max(call.dt, DtFloor)
           IN  /\ call.next_state.theta = Add(st.theta, Mul(d, st.omega))
               /\ call.next_state.omega =
                      Add(st.omega, Mul(d, Add(Mul(Dec(1, 2), st.theta), call.u)))
    /\ IsWorkedExample =>
           /\ call.e = Dec(-3, 0)
           /\ call.u = Dec(-3, 0)
           /\ call.next_state =
                  UFOState(Dec(3, 0), Dec(-1485, 4), Dec(-15, 2), Dec(-3, 0), FALSE)

\* the worked example was run and gave the expected rate
EulerWitness == IsWorkedExample /\ call.next_state.omega = Dec(-1485, 4)

\* C10: in every step, paused or not, saturated or not, with
\* e = theta_ref - theta and dt' = max(dt, 1e-4), the next state has
\* e_prev = e and integ = integ + e*dt', whatever u_limit and the gains are;
\* so each step with non-zero error moves integ by e*dt' with no cap.
Bookkeeping ==
    IsStep =>
        LET st == call.state
            e == Sub(call.theta_ref, st.theta)
            d == Max(call.dt, DtFloor)
        IN  /\ call.e = e
            /\ call.next_state.e_prev = e
            /\ call.next_state.integ = Add(st.integ, Mul(e, d))
            /\ Sub(call.next_state.integ, st.integ).s = e.s

\* a paused, saturated second step: the integral moved twice by e*dt'
WindupWitness ==
    /\ IsStep
    /\ nsteps = 2
    /\ call.state.paused
    /\ start.integ = Zero
    /\ call.u = Neg(call.u_limit)
    /\ call.state.integ # Zero
    /\ Lt(Abs(call.state.integ), Abs(state.integ))
    /\ state.e_prev = call.e
    /\ call.state.e_prev = call.e
=============================================================================
